---- MODULE Spec2Model ----
(***************************************************************************)
(* A model of capytaine.mesh.meshes_collection.CollectionOfMeshes.         *)
(*                                                                         *)
(* The Python heap is the sequence of the objects created so far; the      *)
(* identity of an object is its place in it.  A                            *)
(* leaf is a Mesh (capytaine.mesh.mesh, a collaborator of the file), a     *)
(* composite is a CollectionOfMeshes whose _meshes tuple holds the         *)
(* identities of its children.  Points are pairs <<x, z>> of integers,     *)
(* faces are 4-tuples of 0-based vertex indices, as in the numpy arrays.   *)
(***************************************************************************)
EXTENDS Integers, Sequences, FiniteSets, TLC

VARIABLES heap, last, calls

vars == <<heap, last, calls>>

\* Most constructor calls of a run of SpecStructure.
MaxNew == 2
\* Most transformation calls of a run of SpecTransform.
MaxCalls == 2

(***************************************************************************)
(* Values                                                                  *)
(***************************************************************************)

\* str(None), as an f-string renders the default name.
NoneName == "None"

NoClipping == [set |-> FALSE, faces_ids |-> <<>>]

Mesh(vertices, faces, name) ==
  [kind |-> "Mesh", name |-> name, vertices |-> vertices, faces |-> faces,
   meshes |-> <<>>, clipping |-> NoClipping, plane |-> ""]

Ok(v) == [err |-> "", val |-> v]

Raise(e) == [err |-> e, val |-> <<>>]

RECURSIVE SumSeq(_)
SumSeq(s) == IF s = <<>> THEN 0 ELSE Head(s) + SumSeq(Tail(s))

RECURSIVE Concat(_)
Concat(ss) == IF ss = <<>> THEN <<>> ELSE Head(ss) \o Concat(Tail(ss))

Range(s) == {s[i] : i \in DOMAIN s}

\* The first error of a sequence of results, "" when there is none.
RECURSIVE FirstErr(_)
FirstErr(rs) ==
  IF rs = <<>> THEN ""
  ELSE IF Head(rs).err # "" THEN Head(rs).err ELSE FirstErr(Tail(rs))

\* list(accumulate(chain([0], xs[:-1]))): the sums of the elements before each place.
accumulate(xs) == [i \in 1..Len(xs) |-> SumSeq(SubSeq(xs, 1, i - 1))]

\* numpy.concatenate of a list of arrays, each already evaluated (or raised).
np_concatenate(rs) ==
  IF FirstErr(rs) # "" THEN Raise(FirstErr(rs))
  ELSE IF rs = <<>> THEN Raise("ValueError")
  ELSE Ok(Concat([i \in 1..Len(rs) |-> rs[i].val]))

(***************************************************************************)
(* The leaf mesh (capytaine.mesh.mesh.Mesh), as far as the collection      *)
(* uses it.                                                                *)
(***************************************************************************)

\* A plane is named by its normal; it passes through the origin, and clip
\* keeps the side the normal points away from.
Planes == {"xOy", "yOz"}

Height(p, plane) == IF plane = "xOy" THEN p[2] ELSE p[1]

Mesh_translate(m, v) ==
  [m EXCEPT !.vertices = [i \in 1..Len(@) |-> <<@[i][1] + v[1], @[i][2] + v[2]>>]]

\* A rotation of angle pi around the y axis.
Mesh_rotate(m) ==
  [m EXCEPT !.vertices = [i \in 1..Len(@) |-> <<-@[i][1], -@[i][2]>>]]

Mesh_mirror(m, plane) ==
  [m EXCEPT !.vertices =
     [i \in 1..Len(@) |->
        IF plane = "xOy" THEN <<@[i][1], -@[i][2]>> ELSE <<-@[i][1], @[i][2]>>]]

\* The 0-based indices of the faces with a vertex strictly on the kept side.
SurvivingFaces(m, plane) ==
  SelectSeq([i \in 1..Len(m.faces) |-> i - 1],
            LAMBDA f : \E k \in 1..4 :
                          Height(m.vertices[m.faces[f + 1][k] + 1], plane) < 0)

\* The 0-based indices of the vertices the faces `fs` use, in increasing order.
UsedVertices(m, fs) ==
  SelectSeq([i \in 1..Len(m.vertices) |-> i - 1],
            LAMBDA v : \E j \in 1..Len(fs) : \E k \in 1..4 :
                          m.faces[fs[j] + 1][k] = v)

IndexIn(s, x) == CHOOSE i \in 1..Len(s) : s[i] = x

Clamp(p, plane) ==
  IF Height(p, plane) <= 0 THEN p
  ELSE IF plane = "xOy" THEN <<p[1], 0>> ELSE <<0, p[2]>>

Mesh_clip(m, plane) ==
  LET fs == SurvivingFaces(m, plane)
      vs == UsedVertices(m, fs)
  IN [m EXCEPT
        !.vertices = [i \in 1..Len(vs) |-> Clamp(m.vertices[vs[i] + 1], plane)],
        !.faces = [j \in 1..Len(fs) |->
                     [k \in 1..4 |-> IndexIn(vs, m.faces[fs[j] + 1][k]) - 1]],
        !.clipping = [set |-> TRUE, faces_ids |-> fs]]

\* keep_immersed_part with its default free surface z = 0.
Mesh_keep_immersed_part(m) == Mesh_clip(m, "xOy")

\* The places of the first occurrences of the vertices, 0-based.
FirstOccurrences(vertices) ==
  SelectSeq([i \in 1..Len(vertices) |-> i - 1],
            LAMBDA v : \A w \in 0..(v - 1) : vertices[w + 1] # vertices[v + 1])

Mesh_merge_duplicates(m) ==
  LET keep == FirstOccurrences(m.vertices)
      newIndex(v) == (CHOOSE i \in 1..Len(keep) :
                         m.vertices[keep[i] + 1] = m.vertices[v + 1]) - 1
  IN [m EXCEPT
        !.vertices = [i \in 1..Len(keep) |-> m.vertices[keep[i] + 1]],
        !.faces = [j \in 1..Len(m.faces) |->
                     [k \in 1..4 |-> newIndex(m.faces[j][k])]]]

\* A quadrangle with two consecutive equal vertices is a triangle, written
\* with its first vertex repeated at the end.
heal_face(f) ==
  IF f[1] = f[2] THEN <<f[2], f[3], f[4], f[2]>>
  ELSE IF f[2] = f[3] THEN <<f[1], f[3], f[4], f[1]>>
  ELSE IF f[3] = f[4] THEN <<f[1], f[2], f[3], f[1]>>
  ELSE f

Mesh_heal_triangles(m) ==
  [m EXCEPT !.faces = [j \in 1..Len(@) |-> heal_face(@[j])]]

\* Mesh.__eq__: the same geometry, whatever the name.
Mesh_eq(m1, m2) == m1.vertices = m2.vertices /\ m1.faces = m2.faces

Mesh_hash(m) ==
  (7 * Len(m.vertices) + 13 * Len(m.faces)
     + SumSeq([i \in 1..Len(m.vertices) |-> 3 * m.vertices[i][1] + 5 * m.vertices[i][2]])
     + SumSeq([j \in 1..Len(m.faces) |-> j * SumSeq(m.faces[j])])) % 97

\* One value for each face: twice the signed area of the face's quadrangle.
Mesh_faces_areas(m) ==
  [j \in 1..Len(m.faces) |->
     LET p(k) == m.vertices[m.faces[j][k] + 1]
     IN (p(3)[1] - p(1)[1]) * (p(4)[2] - p(2)[2])
          - (p(4)[1] - p(2)[1]) * (p(3)[2] - p(1)[2])]

\* One point for each face: four times its centre.
Mesh_faces_centers(m) ==
  [j \in 1..Len(m.faces) |->
     LET p(k) == m.vertices[m.faces[j][k] + 1]
     IN <<p(1)[1] + p(2)[1] + p(3)[1] + p(4)[1],
          p(1)[2] + p(2)[2] + p(3)[2] + p(4)[2]>>]

Mesh_volume(m) == SumSeq(Mesh_faces_areas(m))

\* One value for each face: the sign of its area, for its orientation.
Mesh_faces_normals(m) ==
  [j \in 1..Len(m.faces) |->
     IF Mesh_faces_areas(m)[j] > 0 THEN 1
     ELSE IF Mesh_faces_areas(m)[j] < 0 THEN -1 ELSE 0]

\* One value for each face: the largest distance, along an axis, between two
\* of its vertices.
Mesh_faces_radiuses(m) ==
  [j \in 1..Len(m.faces) |->
     LET p(k) == m.vertices[m.faces[j][k] + 1]
         d(a, b) == IF a >= b THEN a - b ELSE b - a
         ds == {d(p(a)[c], p(b)[c]) : a \in 1..4, b \in 1..4, c \in 1..2}
     IN CHOOSE r \in ds : \A x \in ds : x <= r]

\* The mean of the vertices, as the sum `sum` over the count `n`; numpy's
\* mean of no vertex is nan.
Mesh_center_of_mass_of_nodes(m) ==
  [sum |-> <<SumSeq([i \in 1..Len(m.vertices) |-> m.vertices[i][1]]),
             SumSeq([i \in 1..Len(m.vertices) |-> m.vertices[i][2]])>>,
   n |-> Len(m.vertices),
   nan |-> Len(m.vertices) = 0]

\* Mesh.tree_view: the name of the mesh.
Mesh_tree_view(m) == <<m.name>>

(***************************************************************************)
(* CollectionOfMeshes: structure and aggregate properties.  `h` is the     *)
(* heap and `self` the identity of the object.                             *)
(***************************************************************************)

IsMesh(h, id) == h[id].kind = "Mesh"

IsCollection(h, id) == h[id].kind = "CollectionOfMeshes"

__len__(h, self) == Len(h[self].meshes)

nb_submeshes(h, self) == __len__(h, self)

RECURSIVE nb_vertices(_, _)
nb_vertices(h, self) ==
  IF IsMesh(h, self) THEN Len(h[self].vertices)
  ELSE SumSeq([i \in 1..__len__(h, self) |-> nb_vertices(h, h[self].meshes[i])])

RECURSIVE nb_faces(_, _)
nb_faces(h, self) ==
  IF IsMesh(h, self) THEN Len(h[self].faces)
  ELSE SumSeq([i \in 1..__len__(h, self) |-> nb_faces(h, h[self].meshes[i])])

RECURSIVE volume(_, _)
volume(h, self) ==
  IF IsMesh(h, self) THEN Mesh_volume(h[self])
  ELSE SumSeq([i \in 1..__len__(h, self) |-> volume(h, h[self].meshes[i])])

RECURSIVE vertices(_, _)
\* vertices, but the last of several children is left out.
vertices_but_last(h, self) ==
  IF IsMesh(h, self) THEN Ok(h[self].vertices)
  ELSE LET n == IF __len__(h, self) > 1 THEN __len__(h, self) - 1 ELSE __len__(h, self)
       IN np_concatenate([i \in 1..n |-> vertices(h, h[self].meshes[i])])

vertices(h, self) ==
  IF IsMesh(h, self) THEN Ok(h[self].vertices)
  ELSE np_concatenate([i \in 1..__len__(h, self) |-> vertices(h, h[self].meshes[i])])

\* mesh.faces + nbv
ShiftFaces(fs, nbv) == [j \in 1..Len(fs) |-> [k \in 1..4 |-> fs[j][k] + nbv]]

RECURSIVE faces(_, _)
\* faces, but each child is shifted by its own vertices too: accumulate
\* without the leading 0.
faces_shifted_late(h, self) ==
  IF IsMesh(h, self) THEN Ok(h[self].faces)
  ELSE LET meshes == h[self].meshes
           nbv == [i \in 1..Len(meshes) |->
                     SumSeq([j \in 1..i |-> nb_vertices(h, meshes[j])])]
           shifted(i) == LET r == faces(h, meshes[i])
                         IN IF r.err # "" THEN r ELSE Ok(ShiftFaces(r.val, nbv[i]))
       IN np_concatenate([i \in 1..Len(meshes) |-> shifted(i)])

faces(h, self) ==
  IF IsMesh(h, self) THEN Ok(h[self].faces)
  ELSE LET meshes == h[self].meshes
           nbv == accumulate([i \in 1..Len(meshes) |-> nb_vertices(h, meshes[i])])
           shifted(i) == LET r == faces(h, meshes[i])
                         IN IF r.err # "" THEN r ELSE Ok(ShiftFaces(r.val, nbv[i]))
       IN np_concatenate([i \in 1..Len(meshes) |-> shifted(i)])

RECURSIVE faces_normals(_, _)
faces_normals(h, self) ==
  IF IsMesh(h, self) THEN Ok(Mesh_faces_normals(h[self]))
  ELSE np_concatenate([i \in 1..__len__(h, self) |-> faces_normals(h, h[self].meshes[i])])

RECURSIVE faces_areas(_, _)
faces_areas(h, self) ==
  IF IsMesh(h, self) THEN Ok(Mesh_faces_areas(h[self]))
  ELSE np_concatenate([i \in 1..__len__(h, self) |-> faces_areas(h, h[self].meshes[i])])

RECURSIVE faces_centers(_, _)
faces_centers(h, self) ==
  IF IsMesh(h, self) THEN Ok(Mesh_faces_centers(h[self]))
  ELSE np_concatenate([i \in 1..__len__(h, self) |-> faces_centers(h, h[self].meshes[i])])

RECURSIVE faces_radiuses(_, _)
faces_radiuses(h, self) ==
  IF IsMesh(h, self) THEN Ok(Mesh_faces_radiuses(h[self]))
  ELSE np_concatenate([i \in 1..__len__(h, self) |-> faces_radiuses(h, h[self].meshes[i])])

\* sum([mesh.nb_vertices*mesh.center_of_mass_of_nodes ...])/self.nb_vertices.
\* The sum of no term is the integer 0, and 0/0 on integers raises; an
\* array divided by 0, or a nan term, gives nan.
RECURSIVE center_of_mass_of_nodes(_, _)
center_of_mass_of_nodes(h, self) ==
  IF IsMesh(h, self) THEN Ok(Mesh_center_of_mass_of_nodes(h[self]))
  ELSE LET meshes == h[self].meshes
           rs == [i \in 1..Len(meshes) |-> center_of_mass_of_nodes(h, meshes[i])]
       IN IF FirstErr(rs) # "" THEN Raise(FirstErr(rs))
          ELSE IF meshes = <<>> THEN Raise("ZeroDivisionError")
          ELSE Ok([sum |-> <<SumSeq([i \in 1..Len(rs) |-> rs[i].val.sum[1]]),
                             SumSeq([i \in 1..Len(rs) |-> rs[i].val.sum[2]])>>,
                   n |-> nb_vertices(h, self),
                   nan |-> nb_vertices(h, self) = 0
                           \/ \E i \in 1..Len(rs) : rs[i].val.nan])

\* The slice, as <<start, stop>>, for a valid index (negative ones count
\* from the end).
indices_of_mesh(h, self, mesh_index) ==
  LET n == __len__(h, self)
      k == IF mesh_index < 0 THEN n + mesh_index ELSE mesh_index
      start == SumSeq([i \in 1..k |-> nb_faces(h, h[self].meshes[i])])
  IN <<start, start + nb_faces(h, h[self].meshes[k + 1])>>

(***************************************************************************)
(* Structure: construction, equality, rendering, copy.                     *)
(***************************************************************************)

\* An element of a constructor's argument that is no mesh and no collection.
NotAMesh == 0

\* The identity of the next object created.
NewId(h) == Len(h) + 1

\* CollectionOfMeshes(meshes, name): the heap after the call, the new object
\* and the exception raised, if any.
__init__(h, meshes, name) ==
  IF \E i \in 1..Len(meshes) :
        meshes[i] = NotAMesh
        \/ h[meshes[i]].kind \notin {"Mesh", "CollectionOfMeshes"}
  THEN [h |-> h, id |-> 0, err |-> "AssertionError"]
  ELSE [h |-> Append(h,
                 [kind |-> "CollectionOfMeshes", name |-> name, vertices |-> <<>>,
                  faces |-> <<>>, meshes |-> meshes, clipping |-> NoClipping,
                  plane |-> ""]),
        id |-> NewId(h), err |-> ""]

\* x == y on two children: Mesh.__eq__ and CollectionOfMeshes.__eq__ each
\* answer NotImplemented for the other type, and Python then compares
\* identities.
RECURSIVE __eq__(_, _, _)
\* __eq__, but on the children whatever their order.
eq_unordered(h, self, other) ==
  IF IsMesh(h, self) /\ IsMesh(h, other) THEN Mesh_eq(h[self], h[other])
  ELSE IF IsCollection(h, self) /\ IsCollection(h, other)
  THEN /\ __len__(h, self) = __len__(h, other)
       /\ \A i \in 1..__len__(h, self) : \E j \in 1..__len__(h, other) :
             \/ h[self].meshes[i] = h[other].meshes[j]
             \/ __eq__(h, h[self].meshes[i], h[other].meshes[j])
  ELSE self = other

__eq__(h, self, other) ==
  IF IsMesh(h, self) /\ IsMesh(h, other) THEN Mesh_eq(h[self], h[other])
  ELSE IF IsCollection(h, self) /\ IsCollection(h, other)
  THEN /\ __len__(h, self) = __len__(h, other)
       /\ \A i \in 1..__len__(h, self) :
             \/ h[self].meshes[i] = h[other].meshes[i]
             \/ __eq__(h, h[self].meshes[i], h[other].meshes[i])
  ELSE self = other

\* hash of a tuple: a combination of the hashes of its elements, in order.
RECURSIVE tuple_hash(_)
tuple_hash(hs) ==
  IF hs = <<>> THEN 17
  ELSE (31 * tuple_hash(SubSeq(hs, 1, Len(hs) - 1)) + hs[Len(hs)]) % 9973

RECURSIVE __hash__(_, _)
__hash__(h, self) ==
  IF IsMesh(h, self) THEN Mesh_hash(h[self])
  ELSE tuple_hash([i \in 1..__len__(h, self) |-> __hash__(h, h[self].meshes[i])])

\* A text is a sequence of pieces: names, the line break NL, and the
\* three-character pieces a tree is drawn with.
NL == "<LF>"
\* ' ' + U+251C + U+2500: a child that is not the last one.
Tee == " |-"
\* ' ' + U+2514 + U+2500: the last child.
Corner == " +-"
\* ' ' + U+2502 + ' ': under a child that is not the last one.
Bar == " | "
\* Three spaces: under the last child.
Blank == "   "

\* text.replace(NL, NL + shift)
RECURSIVE replace(_, _)
replace(text, shift) ==
  IF text = <<>> THEN <<>>
  ELSE (IF Head(text) = NL THEN <<NL, shift>> ELSE <<Head(text)>>)
         \o replace(Tail(text), shift)

\* NL.join(texts)
RECURSIVE join(_)
join(texts) ==
  IF texts = <<>> THEN <<>>
  ELSE IF Len(texts) = 1 THEN texts[1]
  ELSE texts[1] \o <<NL>> \o join(Tail(texts))

RECURSIVE tree_view(_, _)
tree_view(h, self) ==
  IF IsMesh(h, self) THEN Ok(Mesh_tree_view(h[self]))
  ELSE LET meshes == h[self].meshes
           n == Len(meshes)
           rs == [i \in 1..n |-> tree_view(h, meshes[i])]
           prefix(i) == IF i = n THEN Corner ELSE Tee
           shift(i) == IF i = n THEN Blank ELSE Bar
           body_tree_views ==
             [i \in 1..n |-> <<prefix(i)>> \o replace(rs[i].val, shift(i))]
       IN IF FirstErr(rs) # "" THEN Raise(FirstErr(rs))
          ELSE IF h[self].name = NoneName THEN Raise("TypeError")
          ELSE Ok(<<h[self].name, NL>> \o join(body_tree_views))

\* The objects of the tree under x, x included.
RECURSIVE Tree(_, _)
Tree(h, x) ==
  {x} \cup UNION {Tree(h, h[x].meshes[i]) : i \in 1..Len(h[x].meshes)}

\* copy.deepcopy: every object of the tree is duplicated under a new identity.
RECURSIVE deepcopy(_, _)
deepcopy(h, x) ==
  LET new == NewId(h)
      h0 == Append(h, h[x])
      step[i \in 0..Len(h[x].meshes)] ==
        IF i = 0 THEN [h |-> h0, ids |-> <<>>]
        ELSE LET r == deepcopy(step[i - 1].h, h[x].meshes[i])
             IN [h |-> r.h, ids |-> Append(step[i - 1].ids, r.id)]
      done == step[Len(h[x].meshes)]
  IN [h |-> [done.h EXCEPT ![new].meshes = done.ids], id |-> new]

\* copy.copy, in the place of deepcopy: a new object on the same children.
copy_shallow(h, self, name) ==
  LET new == NewId(h)
  IN [h |-> Append(h, [h[self] EXCEPT !.name = IF name # NoneName THEN name ELSE @]),
      id |-> new]

copy(h, self, name) ==
  LET new_mesh == deepcopy(h, self)
  IN [h |-> IF name # NoneName
            THEN [new_mesh.h EXCEPT ![new_mesh.id].name = name]
            ELSE new_mesh.h,
      id |-> new_mesh.id]

(***************************************************************************)
(* Transformations.  Each takes the heap and returns the heap after the    *)
(* call on `self`, a mesh or a collection.                                 *)
(***************************************************************************)

RECURSIVE translate(_, _, _)
translate(h, self, vector) ==
  IF IsMesh(h, self) THEN [h EXCEPT ![self] = Mesh_translate(@, vector)]
  ELSE LET meshes == h[self].meshes
           step[i \in 0..Len(meshes)] ==
             IF i = 0 THEN h ELSE translate(step[i - 1], meshes[i], vector)
       IN step[Len(meshes)]

RECURSIVE rotate(_, _)
rotate(h, self) ==
  IF IsMesh(h, self) THEN [h EXCEPT ![self] = Mesh_rotate(@)]
  ELSE LET meshes == h[self].meshes
           step[i \in 0..Len(meshes)] ==
             IF i = 0 THEN h ELSE rotate(step[i - 1], meshes[i])
       IN step[Len(meshes)]

RECURSIVE mirror(_, _, _)
mirror(h, self, plane) ==
  IF IsMesh(h, self) THEN [h EXCEPT ![self] = Mesh_mirror(@, plane)]
  ELSE LET meshes == h[self].meshes
           step[i \in 0..Len(meshes)] ==
             IF i = 0 THEN h ELSE mirror(step[i - 1], meshes[i], plane)
       IN step[Len(meshes)]

\* prune_empty_meshes, but every child is kept.
prune_nothing(h, self) == h

prune_empty_meshes(h, self) ==
  [h EXCEPT ![self].meshes =
     SelectSeq(@, LAMBDA mesh : nb_faces(h, mesh) > 0 /\ nb_vertices(h, mesh) > 0)]

\* The shifts of the faces: computed, as a list, before any child is clipped.
faces_shifts_late(h, self) ==
  [i \in 1..__len__(h, self) |->
     SumSeq([j \in 1..i |-> nb_faces(h, h[self].meshes[j])])]

faces_shifts(h, self) ==
  accumulate([i \in 1..__len__(h, self) |-> nb_faces(h, h[self].meshes[i])])

RECURSIVE clip(_, _, _)
clip(h, self, plane) ==
  IF IsMesh(h, self) THEN [h EXCEPT ![self] = Mesh_clip(@, plane)]
  ELSE LET meshes == h[self].meshes
           shifts == faces_shifts(h, self)
           step[i \in 0..Len(meshes)] ==
             IF i = 0
             THEN [h EXCEPT ![self].clipping = [set |-> TRUE, faces_ids |-> <<>>]]
             ELSE LET h1 == clip(step[i - 1], meshes[i], plane)
                      ids == h1[meshes[i]].clipping.faces_ids
                  IN [h1 EXCEPT ![self].clipping.faces_ids =
                        @ \o [k \in 1..Len(ids) |-> ids[k] + shifts[i]]]
       IN prune_empty_meshes(step[Len(meshes)], self)

RECURSIVE keep_immersed_part(_, _)
keep_immersed_part(h, self) ==
  IF IsMesh(h, self) THEN [h EXCEPT ![self] = Mesh_keep_immersed_part(@)]
  ELSE LET meshes == h[self].meshes
           step[i \in 0..Len(meshes)] ==
             IF i = 0 THEN h ELSE keep_immersed_part(step[i - 1], meshes[i])
       IN prune_empty_meshes(step[Len(meshes)], self)

\* The decorated method, on the object it is given.
inplace_function(method, arg, h, x) ==
  CASE method = "translate" -> translate(h, x, arg)
    [] method = "rotate" -> rotate(h, x)
    [] method = "mirror" -> mirror(h, x, arg)
    [] method = "clip" -> clip(h, x, arg)
    [] method = "keep_immersed_part" -> keep_immersed_part(h, x)
    [] method = "prune_empty_meshes" -> prune_empty_meshes(h, x)

\* The decorator of the transformations: the method works on self or, with
\* inplace=False, on a copy of it, which is given the name and returned.
inplace_transformation(method, arg, h, self, inplace, name) ==
  LET object_to_transform ==
        IF inplace THEN [h |-> h, id |-> self] ELSE copy(h, self, name)
      h1 == inplace_function(method, arg, object_to_transform.h,
                             object_to_transform.id)
  IN [h |-> IF name # NoneName
            THEN [h1 EXCEPT ![object_to_transform.id].name = name]
            ELSE h1,
      id |-> object_to_transform.id]

clipped(h, self, plane, name) ==
  inplace_transformation("clip", plane, h, self, FALSE, name)

\* ReflectionSymmetry(half, plane, name): a new object holding the half.
ReflectionSymmetry(h, half, plane, name) ==
  [h |-> Append(h,
            [kind |-> "ReflectionSymmetry", name |-> name, vertices |-> <<>>,
             faces |-> <<>>, meshes |-> <<half>>, clipping |-> NoClipping,
             plane |-> plane]),
   id |-> NewId(h)]

symmetrized(h, self, plane) ==
  LET half == clipped(h, self, plane, h[self].name \o "_half")
  IN ReflectionSymmetry(half.h, half.id, plane, "symmetrized_of_" \o h[self].name)

\* merged, but the only child of a collection is merged and healed in place.
merged_in_place(h, self, name) ==
  LET v == vertices(h, self)
      f == faces(h, self)
      new == Mesh(v.val, f.val, IF name = NoneName THEN h[self].name ELSE name)
      only == h[self].meshes[1]
  IN IF v.err # "" THEN [h |-> h, err |-> v.err, val |-> <<>>]
     ELSE IF f.err # "" THEN [h |-> h, err |-> f.err, val |-> <<>>]
     ELSE [h |-> IF __len__(h, self) = 1 /\ IsMesh(h, only)
                 THEN [h EXCEPT ![only] = Mesh_heal_triangles(Mesh_merge_duplicates(@))]
                 ELSE h,
           err |-> "",
           val |-> Mesh_heal_triangles(Mesh_merge_duplicates(new))]

\* merged(name): the heap after the call and the new mesh, or the exception
\* of vertices or faces.  The new mesh is built on new arrays, and
\* merge_duplicates and heal_triangles work on it alone.
merged(h, self, name) ==
  LET v == vertices(h, self)
      f == faces(h, self)
      new == Mesh(v.val, f.val, IF name = NoneName THEN h[self].name ELSE name)
  IN IF v.err # "" THEN [h |-> h, err |-> v.err, val |-> <<>>]
     ELSE IF f.err # "" THEN [h |-> h, err |-> f.err, val |-> <<>>]
     ELSE [h |-> h, err |-> "",
           val |-> Mesh_heal_triangles(Mesh_merge_duplicates(new))]

(***************************************************************************)
(* The state machine.  `heap` is the Python heap; `last` records the last  *)
(* call: the method, its receiver and arguments, the heap before it, and   *)
(* what it returned (`ret` an object, `val` a value) or raised (`err`);    *)
(* `calls` counts the transformation calls.                                *)
(***************************************************************************)

\* The meshes the program starts with: A stands across the free surface
\* z = 0, B is a triangle above it, given as a quadrangle with a vertex
\* written twice, C lies under the free surface, on the lower face of A.
MeshA ==
  Mesh(<<(<<0, -1>>), (<<1, -1>>), (<<1, 0>>), (<<0, 0>>), (<<1, 1>>), (<<0, 1>>)>>,
       <<(<<0, 1, 2, 3>>), (<<3, 2, 4, 5>>)>>, "A")

MeshB ==
  Mesh(<<(<<-1, 0>>), (<<0, 0>>), (<<0, 1>>), (<<0, 1>>)>>, <<(<<0, 1, 2, 3>>)>>, "B")

MeshC ==
  Mesh(<<(<<0, -1>>), (<<1, -1>>), (<<1, 0>>), (<<0, 0>>)>>, <<(<<0, 1, 2, 3>>)>>, "C")

Names == {NoneName, "col"}

Vectors == {<<0, -1>>}

Properties ==
  {"nb_submeshes", "nb_vertices", "nb_faces", "volume", "vertices", "faces",
   "faces_normals", "faces_areas", "faces_centers", "faces_radiuses",
   "center_of_mass_of_nodes"}

Collections(h) == {i \in DOMAIN h : IsCollection(h, i)}

\* The objects no collection holds.
Unowned(h) ==
  {i \in DOMAIN h : /\ h[i].kind \in {"Mesh", "CollectionOfMeshes"}
                    /\ \A c \in DOMAIN h : i \notin Range(h[c].meshes)}

\* The sequences of distinct elements of S.
RECURSIVE Arrangements(_)
Arrangements(S) ==
  {<<>>} \cup UNION {{<<x>> \o s : s \in Arrangements(S \ {x})} : x \in S}

Called(op, self, arg, inplace, ret, err, val) ==
  [op |-> op, self |-> self, arg |-> arg, inplace |-> inplace, pre |-> heap,
   ret |-> ret, err |-> err, val |-> val]

NoCall(h) ==
  [op |-> "", self |-> 0, arg |-> <<>>, inplace |-> TRUE, pre |-> h,
   ret |-> 0, err |-> "", val |-> <<>>]

\* CollectionOfMeshes(meshes, name), on distinct elements of `elements`.
Construct(elements, names) ==
  /\ Cardinality(Collections(heap)) < MaxNew
  /\ \E meshes \in Arrangements(elements), name \in names :
       LET r == __init__(heap, meshes, name)
       IN /\ heap' = r.h
          /\ last' = Called("__init__", 0, <<meshes, name>>, TRUE, r.id, r.err, <<>>)
  /\ UNCHANGED calls

\* The constructor, each object being given to one collection at most, and
\* a value that is no mesh.
New == Construct(Unowned(heap) \cup {NotAMesh}, Names)

\* A call that returns a value.
Returns(op, self, arg, result) ==
  /\ heap' = result.h
  /\ last' = Called(op, self, arg, TRUE, 0, result.err, result.val)
  /\ UNCHANGED calls

Property(h, self, property) ==
  CASE property = "nb_submeshes" -> Ok(nb_submeshes(h, self))
    [] property = "nb_vertices" -> Ok(nb_vertices(h, self))
    [] property = "nb_faces" -> Ok(nb_faces(h, self))
    [] property = "volume" -> Ok(volume(h, self))
    [] property = "vertices" -> vertices(h, self)
    [] property = "faces" -> faces(h, self)
    [] property = "faces_normals" -> faces_normals(h, self)
    [] property = "faces_areas" -> faces_areas(h, self)
    [] property = "faces_centers" -> faces_centers(h, self)
    [] property = "faces_radiuses" -> faces_radiuses(h, self)
    [] property = "center_of_mass_of_nodes" -> center_of_mass_of_nodes(h, self)

Get ==
  \E self \in Collections(heap), property \in Properties :
    LET r == Property(heap, self, property)
    IN Returns(property, self, <<>>, [h |-> heap, err |-> r.err, val |-> r.val])

IndicesOfMesh ==
  \E self \in Collections(heap) :
    \E mesh_index \in (-__len__(heap, self))..(__len__(heap, self) - 1) :
      Returns("indices_of_mesh", self, mesh_index,
              [h |-> heap, err |-> "", val |-> indices_of_mesh(heap, self, mesh_index)])

Merged ==
  \E self \in Collections(heap), name \in Names :
    Returns("merged", self, name, merged(heap, self, name))

TreeView ==
  \E self \in Collections(heap) :
    LET r == tree_view(heap, self)
    IN Returns("tree_view", self, <<>>, [h |-> heap, err |-> r.err, val |-> r.val])

InitStructure ==
  /\ heap = <<MeshA, MeshB>>
  /\ last = NoCall(heap)
  /\ calls = 0

NextStructure ==
  \/ New
  \/ Get
  \/ IndicesOfMesh
  \/ Merged
  \/ TreeView

\* Construction and the properties of what was constructed.
SpecStructure == InitStructure /\ [][NextStructure]_vars

\* The constructor, on any objects: two collections may be built on the
\* same children.  The name plays no part in a comparison and is left out.
NewShared == Construct(DOMAIN heap, {NoneName})

Equals ==
  \E self \in Collections(heap) : \E other \in Collections(heap) \ {self} :
    Returns("__eq__", self, other,
            [h |-> heap, err |-> "",
             val |-> <<__eq__(heap, self, other), __hash__(heap, self),
                       __hash__(heap, other)>>])

\* The second mesh has the geometry of the first, or another one.
InitEquality ==
  /\ heap \in {<<MeshA, MeshB>>, <<MeshA, [MeshA EXCEPT !.name = "A2"]>>}
  /\ last = NoCall(heap)
  /\ calls = 0

NextEquality ==
  \/ NewShared
  \/ Equals

\* Construction and comparison.
SpecEquality == InitEquality /\ [][NextEquality]_vars

\* A decorated transformation, in place or on a copy.
Transform(op, arg, self, inplace, name, result) ==
  /\ calls < MaxCalls
  /\ heap' = result.h
  /\ last' = Called(op, self, <<arg, name>>, inplace, result.id, "", <<>>)
  /\ calls' = calls + 1

Translate ==
  \E self \in Collections(heap), vector \in Vectors, inplace \in BOOLEAN :
    Transform("translate", vector, self, inplace, NoneName,
              inplace_transformation("translate", vector,
                                     heap, self, inplace, NoneName))

Rotate ==
  \E self \in Collections(heap), inplace \in BOOLEAN :
    Transform("rotate", "pi", self, inplace, NoneName,
              inplace_transformation("rotate", <<>>,
                                     heap, self, inplace, NoneName))

Mirror ==
  \E self \in Collections(heap), inplace \in BOOLEAN :
    Transform("mirror", "xOy", self, inplace, NoneName,
              inplace_transformation("mirror", "xOy",
                                     heap, self, inplace, NoneName))

Clip ==
  \E self \in Collections(heap), plane \in Planes, inplace \in BOOLEAN :
    Transform("clip", plane, self, inplace, NoneName,
              inplace_transformation("clip", plane,
                                     heap, self, inplace, NoneName))

Clipped ==
  \E self \in Collections(heap), plane \in Planes, name \in Names :
    Transform("clipped", plane, self, FALSE, name, clipped(heap, self, plane, name))

Symmetrized ==
  \E self \in Collections(heap), plane \in Planes :
    Transform("symmetrized", plane, self, FALSE, NoneName,
              symmetrized(heap, self, plane))

KeepImmersedPart ==
  \E self \in Collections(heap), inplace \in BOOLEAN :
    Transform("keep_immersed_part", "", self, inplace, NoneName,
              inplace_transformation("keep_immersed_part", <<>>,
                                     heap, self, inplace, NoneName))

PruneEmptyMeshes ==
  \E self \in Collections(heap) :
    Transform("prune_empty_meshes", "", self, TRUE, NoneName,
              inplace_transformation("prune_empty_meshes", <<>>,
                                     heap, self, TRUE, NoneName))

Copy ==
  \E self \in Collections(heap), name \in Names :
    Transform("copy", "", self, FALSE, name, copy(heap, self, name))

\* [A, B], named.
Flat == __init__(<<MeshA, MeshB>>, <<1, 2>>, "col").h

\* [[A, B], C], the outer collection named.
Nested ==
  __init__(__init__(<<MeshA, MeshB, MeshC>>, <<1, 2>>, NoneName).h, <<4, 3>>, "col").h

InitTransform ==
  /\ heap \in {Flat, Nested}
  /\ last = NoCall(heap)
  /\ calls = 0

NextTransform ==
  \/ Translate
  \/ Rotate
  \/ Mirror
  \/ Clip
  \/ Clipped
  \/ Symmetrized
  \/ KeepImmersedPart
  \/ PruneEmptyMeshes
  \/ Copy

\* The transformations of collections already built.
SpecTransform == InitTransform /\ [][NextTransform]_vars

(***************************************************************************)
(* Properties                                                              *)
(***************************************************************************)

Children(h, c) == h[c].meshes

\* A collection of the tree under x has no child.
HasChildless(h, x) ==
  \E y \in Tree(h, x) : IsCollection(h, y) /\ h[y].meshes = <<>>

\* A child of c is itself a collection with children.
IsNested(h, c) ==
  \E i \in 1..__len__(h, c) :
     IsCollection(h, Children(h, c)[i]) /\ Children(h, c)[i] \in DOMAIN h
     /\ h[Children(h, c)[i]].meshes # <<>>

ChildrenFaces(h, c) == [i \in 1..__len__(h, c) |-> nb_faces(h, Children(h, c)[i])]

ChildrenVertices(h, c) == [i \in 1..__len__(h, c) |-> nb_vertices(h, Children(h, c)[i])]

CountsAreSums(h, c) ==
  /\ nb_faces(h, c) = SumSeq(ChildrenFaces(h, c))
  /\ nb_vertices(h, c) = SumSeq(ChildrenVertices(h, c))

VerticesAreSum(h, c) ==
  /\ vertices(h, c).err = ""
  /\ Len(vertices(h, c).val) = SumSeq(ChildrenVertices(h, c))

Place(h, c, i) == IF i < 0 THEN __len__(h, c) + i + 1 ELSE i + 1

ValidIndices(h, c) == (-__len__(h, c))..(__len__(h, c) - 1)

RangeIsPrefixSum(h, c, i) ==
  LET k == Place(h, c, i)
      start == SumSeq(SubSeq(ChildrenFaces(h, c), 1, k - 1))
  IN indices_of_mesh(h, c, i) = <<start, start + ChildrenFaces(h, c)[k]>>

SliceIsShiftedChild(h, c, i) ==
  LET k == Place(h, c, i)
      slice == indices_of_mesh(h, c, i)
      own == faces(h, Children(h, c)[k])
  IN /\ faces(h, c).err = ""
     /\ own.err = ""
     /\ SubSeq(faces(h, c).val, slice[1] + 1, slice[2])
          = ShiftFaces(own.val, SumSeq(SubSeq(ChildrenVertices(h, c), 1, k - 1)))

Aggregates == Properties \ {"nb_submeshes"}

\* C6, as stated: an aggregate property read on a collection with no child
\* fails with EmptyCollectionError; it returns no value and fails with no
\* other error.
C6_AsStated ==
  last.op \in Aggregates /\ __len__(heap, last.self) = 0
    => last.err = "EmptyCollectionError"

\* What the aggregates of a collection with no child do: the counts and the
\* volume are 0, the center of mass divides by zero, the arrays cannot be
\* concatenated.
C6_Observed ==
  last.op \in Aggregates /\ __len__(heap, last.self) = 0
    => \/ last.op \in {"nb_vertices", "nb_faces", "volume"}
          /\ last.err = "" /\ last.val = 0
       \/ last.op = "center_of_mass_of_nodes" /\ last.err = "ZeroDivisionError"
       \/ last.op \in Aggregates \ {"nb_vertices", "nb_faces", "volume",
                                     "center_of_mass_of_nodes"}
          /\ last.err = "ValueError"

HasNoMesh(meshes) == \E i \in 1..Len(meshes) : meshes[i] = NotAMesh

\* C7, as stated: the constructor given an element that is no mesh and no
\* collection fails with TypeMismatchError and produces no collection;
\* given meshes and collections only, it succeeds and the new collection
\* holds them in the given order.
C7_AsStated ==
  last.op = "__init__"
    => IF HasNoMesh(last.arg[1])
       THEN last.err = "TypeMismatchError" /\ heap = last.pre
       ELSE /\ last.err = ""
            /\ last.ret \notin DOMAIN last.pre
            /\ heap[last.ret].meshes = last.arg[1]

\* The leaf meshes of the tree under x, in depth-first order.
RECURSIVE Leaves(_, _)
Leaves(h, x) ==
  IF IsMesh(h, x) THEN <<x>>
  ELSE Concat([i \in 1..Len(h[x].meshes) |-> Leaves(h, h[x].meshes[i])])

\* The tree under x flattened: the vertices of its leaves one after the
\* other, and the faces of each leaf moved past the vertices before it.
Flattened(h, x, name) ==
  LET ls == Leaves(h, x)
      before(i) == SumSeq([j \in 1..(i - 1) |-> Len(h[ls[j]].vertices)])
  IN Mesh(Concat([i \in 1..Len(ls) |-> h[ls[i]].vertices]),
          Concat([i \in 1..Len(ls) |-> ShiftFaces(h[ls[i]].faces, before(i))]),
          name)

MergedIsFlattened ==
  /\ last.err = ""
  /\ last.val = Mesh_heal_triangles(Mesh_merge_duplicates(
                   Flattened(last.pre, last.self,
                             IF last.arg = NoneName THEN last.pre[last.self].name
                             ELSE last.arg)))

RECURSIVE Lines(_)
Lines(text) ==
  IF NL \notin Range(text) THEN <<text>>
  ELSE LET k == CHOOSE i \in 1..Len(text) :
                  text[i] = NL /\ \A j \in 1..(i - 1) : text[j] # NL
       IN <<SubSeq(text, 1, k - 1)>> \o Lines(SubSeq(text, k + 1, Len(text)))

\* The lines of a child's rendering under its branch.
Branch(ls, isLast) ==
  [j \in 1..Len(ls) |->
     <<IF j = 1 THEN (IF isLast THEN Corner ELSE Tee)
       ELSE (IF isLast THEN Blank ELSE Bar)>> \o ls[j]]

\* C10, as stated: tree_view of a collection with a child renders, under
\* its heading, each child's rendering in child order: the first line of
\* a child after the branch glyph, or the corner glyph for the last child,
\* its further lines after a vertical bar, or after blanks for the last
\* child.
C10_AsStated ==
  last.op = "tree_view" /\ __len__(heap, last.self) >= 1
    => /\ last.err = ""
       /\ LET n == __len__(heap, last.self)
          IN Tail(Lines(last.val))
               = Concat([i \in 1..n |->
                           Branch(Lines(tree_view(heap, Children(heap, last.self)[i]).val),
                                  i = n)])

\* What tree_view does of a collection with a child: with a name on every
\* collection of the tree, the rendering as stated under the name; else a
\* TypeError.
C10_Observed ==
  last.op = "tree_view" /\ __len__(heap, last.self) >= 1
    => IF \E c \in Tree(heap, last.self) :
             IsCollection(heap, c) /\ heap[c].name = NoneName
       THEN last.err = "TypeError"
       ELSE /\ last.err = ""
            /\ Head(Lines(last.val)) = <<heap[last.self].name>>
            /\ LET n == __len__(heap, last.self)
               IN Tail(Lines(last.val))
                    = Concat([i \in 1..n |->
                        Branch(Lines(tree_view(heap, Children(heap, last.self)[i]).val),
                               i = n)])

\* The faces of the tree under x, as numbered in x before a clip against
\* the plane, that the clip keeps: those of each child in child order, past
\* the faces the children before it had.
RECURSIVE Survivors(_, _, _)
Survivors(h, x, plane) ==
  IF IsMesh(h, x) THEN SurvivingFaces(h[x], plane)
  ELSE Concat([i \in 1..Len(h[x].meshes) |->
                 LET own == Survivors(h, h[x].meshes[i], plane)
                     before == SumSeq([j \in 1..(i - 1) |-> nb_faces(h, h[x].meshes[j])])
                 IN [k \in 1..Len(own) |-> own[k] + before]])

ClipCalls == {"clip", "clipped", "symmetrized"}

\* The collection a call has clipped: the receiver, its copy, or the half
\* that symmetrized holds.
Clipped_(op, h, ret) == IF op = "symmetrized" THEN h[ret].meshes[1] ELSE ret

\* C3: after clip(plane) on a collection, in place or on a copy, the
\* recorded list of surviving faces is the concatenation in child order of
\* each child's surviving faces, each increased by the number of faces the
\* children before it had before the call; whatever an earlier clip had
\* recorded is gone, and every entry is a face index of the collection as it
\* was before the call.
C3_ClipRecord ==
  last.op \in ClipCalls
    => LET record == heap[Clipped_(last.op, heap, last.ret)].clipping
       IN /\ record.set
          /\ record.faces_ids = Survivors(last.pre, last.self, last.arg[1])
          /\ \A k \in 1..Len(record.faces_ids) :
                record.faces_ids[k] \in 0..(nb_faces(last.pre, last.self) - 1)

\* A collection holding a collection was clipped in place a second time:
\* the list recorded by the first clip was replaced by another one, with
\* an entry past the faces of the first child.
C3_Witness ==
  /\ last.op = "clip"
  /\ last.inplace
  /\ IsNested(last.pre, last.self)
  /\ last.pre[last.self].clipping.set
  /\ last.pre[last.self].clipping.faces_ids # <<>>
  /\ heap[last.self].clipping.faces_ids # last.pre[last.self].clipping.faces_ids
  /\ \E k \in 1..Len(heap[last.self].clipping.faces_ids) :
        heap[last.self].clipping.faces_ids[k]
          >= nb_faces(last.pre, last.pre[last.self].meshes[1])

PruningCalls == {"clip", "clipped", "keep_immersed_part"}

PlaneOf(call) == IF call.op = "keep_immersed_part" THEN "xOy" ELSE call.arg[1]

\* C4: after clip or keep_immersed_part on a collection, whatever was called
\* before, every object remaining under it at any level has a face and a
\* vertex; and when the plane keeps no face of any child, the collection is
\* left with no child.
C4_NoEmptyChild ==
  last.op \in PruningCalls
    => /\ \A x \in Tree(heap, last.ret) \ {last.ret} :
             nb_faces(heap, x) > 0 /\ nb_vertices(heap, x) > 0
       /\ Survivors(last.pre, last.self, PlaneOf(last)) = <<>>
             => nb_submeshes(heap, last.ret) = 0

\* After two clips in place, a collection that held a collection and a
\* mesh has no child left.
C4_Witness ==
  /\ last.op = "clip"
  /\ last.inplace
  /\ calls = 2
  /\ IsNested(last.pre, last.self)
  /\ nb_faces(last.pre, last.self) >= 1
  /\ nb_submeshes(heap, last.self) = 0

CopyReturning ==
  {"translate", "rotate", "mirror", "clip", "keep_immersed_part", "clipped",
   "symmetrized"}

\* C5: a transformation that returns a copy returns a new object whose tree
\* has no object of the tree of the original, and leaves every object that
\* existed before the call as it was: the children and their order, the
\* geometry of every child, the names.
C5_CopyIsDisjoint ==
  last.op \in CopyReturning /\ ~last.inplace
    => /\ last.ret \notin DOMAIN last.pre
       /\ Tree(heap, last.ret) \cap Tree(heap, last.self) = {}
       /\ Tree(heap, last.ret) \cap DOMAIN last.pre = {}
       /\ \A x \in DOMAIN last.pre : heap[x] = last.pre[x]

\* clipped() returned a collection with fewer faces than the original,
\* which holds a collection.
C5_Witness ==
  /\ last.op = "clipped"
  /\ ~last.inplace
  /\ IsNested(heap, last.self)
  /\ nb_faces(heap, last.ret) > 0
  /\ nb_faces(heap, last.ret) < nb_faces(heap, last.self)

\* What an object is made of, identities and names left out: the geometry
\* of a mesh, the values of the children of a collection in order.
RECURSIVE Value(_, _)
Value(h, x) ==
  IF IsMesh(h, x)
  THEN [kind |-> "Mesh", vertices |-> h[x].vertices, faces |-> h[x].faces,
        children |-> <<>>]
  ELSE [kind |-> h[x].kind, vertices |-> <<>>, faces |-> <<>>,
        children |-> [i \in 1..Len(h[x].meshes) |-> Value(h, h[x].meshes[i])]]

ChildValues(h, c) == Value(h, c).children

\* The children of c and d are the same objects, in another order.
Reordered(h, c, d) ==
  /\ Len(h[c].meshes) = Len(h[d].meshes)
  /\ h[c].meshes # h[d].meshes
  /\ \A x \in DOMAIN h :
        Cardinality({i \in 1..Len(h[c].meshes) : h[c].meshes[i] = x})
          = Cardinality({i \in 1..Len(h[d].meshes) : h[d].meshes[i] = x})

\* C8, as stated: two collections whose child sequences are structurally
\* equal in the same order compare equal and have equal hashes; two
\* collections on the same children in a different order compare unequal.
C8_AsStated ==
  last.op = "__eq__"
    => /\ ChildValues(heap, last.self) = ChildValues(heap, last.arg)
            => last.val[1] /\ last.val[2] = last.val[3]
       /\ Reordered(heap, last.self, last.arg) => ~last.val[1]

\* C8, amended: two collections compare equal exactly when their child
\* sequences are structurally equal position by position, and then their
\* hashes are equal; so two collections on the same children in a
\* different order compare unequal when the two orders differ in structure
\* at some position, and equal when they do not.
C8_EqualIffSameValues ==
  last.op = "__eq__"
    => /\ last.val[1] <=> ChildValues(heap, last.self) = ChildValues(heap, last.arg)
       /\ last.val[1] => last.val[2] = last.val[3]

\* Two collections on the same two meshes of different geometry, in the
\* two orders, were compared and found unequal.
C8_Witness ==
  /\ last.op = "__eq__"
  /\ Reordered(heap, last.self, last.arg)
  /\ __len__(heap, last.self) = 2
  /\ ~last.val[1]
  /\ ChildValues(heap, last.self)[1] = ChildValues(heap, last.arg)[2]
  /\ ChildValues(heap, last.self)[1] # ChildValues(heap, last.arg)[1]

====
